---- MODULE Spec2Model ----
(***************************************************************************)
(* Model of main.py: the Keenetic router client (keen_get, keen_auth,      *)
(* update_clients), the presence monitor loop (check_status_change) and    *)
(* the chat handlers (start, button_handler) that share its state.         *)
(*                                                                         *)
(* The program runs on one asyncio event loop: code between two awaits is  *)
(* atomic.  The router calls (requests) are blocking, so a whole           *)
(* update_clients()/keen_auth() call is one step; the monitor is           *)
(* suspended only in `await app.bot.send_message` and                      *)
(* `await asyncio.sleep`, and handlers run only then.                      *)
(*                                                                         *)
(* Python dicts are functions with string domains; a missing key is a      *)
(* string outside the DOMAIN.  An IP string is the sequence of its         *)
(* dot-separated parts: a part is a natural number (a digit string) or     *)
(* NonDigit.                                                               *)
(***************************************************************************)
EXTENDS Integers, Sequences, FiniteSets, TLC

\* ------------------------------------------------------------ bounds
\* longest host list a poll returns
MaxHosts == 2
\* the count of consecutive failed polls saturates here
MaxFails == 2
\* the session requests the history keeps
MaxWire == 4
\* longest host list given to sorted() alone
MaxSort == 3

\* ------------------------------------------------------------ values
EmptyMap == [x \in {} |-> x]
NonDigit == -1

Macs == {"A", "B"}
\* the address each known device holds ("10.0.0.20" and "10.0.0.5"), and
\* the address of a host entry that carries no mac
IpOf == [m \in Macs |-> IF m = "A" THEN <<10, 0, 0, 20>> ELSE <<10, 0, 0, 5>>]
OtherIp == <<10, 0, 0, 9>>

\* ALLOWED_USERS: the parsed allow-list, also the subscriber list
ALLOWED_USERS == <<1, 2>>
\* chat users that reach the handlers (3 is not allowed)
ChatUsers == {1, 3}

\* dict.get(key, default)
Get(d, k, default) == IF k \in DOMAIN d THEN d[k] ELSE default

\* the host entries the router may return: complete ones, and ones with
\* the active flag, the ip or the mac missing
Devices ==
    {[mac |-> m, ip |-> IpOf[m], active |-> a] : m \in Macs, a \in BOOLEAN}
    \cup {[mac |-> m, ip |-> IpOf[m]] : m \in Macs}
    \cup {[mac |-> m, active |-> a] : m \in Macs, a \in BOOLEAN}
    \cup {[ip |-> OtherIp, active |-> TRUE], [active |-> TRUE]}

\* the router's host table is keyed by MAC: no address occurs twice
DistinctMacs(h) ==
    \A i, j \in 1..Len(h) :
        (i # j /\ "mac" \in DOMAIN h[i] /\ "mac" \in DOMAIN h[j]) => h[i].mac # h[j].mac

HostLists ==
    {h \in UNION {[1..n -> Devices] : n \in 0..MaxHosts} : DistinctMacs(h)}

\* ------------------------------------------------------------ router replies
\* status 0 stands for a requests.RequestException without a response
\* (timeout, connection error); json = FALSE is a body that is not JSON.
FailedReplies(authed) ==
    {[status |-> s, json |-> FALSE, data |-> EmptyMap] :
        s \in {0, 500} \cup (IF authed THEN {200} ELSE {401})}

DeviceListReplies(authed) ==
    FailedReplies(authed)
    \cup (IF authed
          THEN {[status |-> 200, json |-> TRUE, data |-> d] :
                  d \in {EmptyMap, [error |-> "x"]} \cup {[host |-> h] : h \in HostLists}}
          ELSE {})

\* what the router answered, in the words of the design: the fetch failed
\* (no response, an error status, a body that is not JSON), it held no
\* host, or it held a host list
ReplyHosts(resp) ==
    IF resp.status = 200 /\ resp.json /\ "host" \in DOMAIN resp.data
    THEN resp.data.host ELSE <<>>

ReplyClass(resp) ==
    IF resp.status # 200 \/ ~resp.json THEN "failed"
    ELSE IF Len(ReplyHosts(resp)) = 0 THEN "empty"
    ELSE "hosts"

\* a list without its order: each entry with the times it occurs
BagOf(h) ==
    [d \in {h[i] : i \in 1..Len(h)} |-> Cardinality({i \in 1..Len(h) : h[i] = d})]

\* ------------------------------------------------------------ keen_get
keen_get(resp) ==
    IF resp.status = 0 THEN EmptyMap               \* session.get raised
    ELSE IF resp.status >= 400 THEN EmptyMap       \* raise_for_status
    ELSE IF ~resp.json THEN EmptyMap               \* r.json() raised ValueError
    ELSE resp.data

\* ------------------------------------------------------------ update_clients
RECURSIVE TupleLess(_, _)
\* Python's tuple order: lexicographic, a proper prefix is smaller
TupleLess(a, b) ==
    IF Len(b) = 0 THEN FALSE
    ELSE IF Len(a) = 0 THEN TRUE
    ELSE IF Head(a) # Head(b) THEN Head(a) < Head(b)
    ELSE TupleLess(Tail(a), Tail(b))

\* str.isdigit() of one dot-separated part
IsDigit(x) == x # NonDigit

ip_sort(dev) ==
    LET ip == Get(dev, "ip", <<0, 0, 0, 0>>)
    IN  SelectSeq(ip, IsDigit)

RECURSIVE InsertByKey(_, _)
InsertByKey(s, x) ==
    IF Len(s) = 0 THEN <<x>>
    ELSE IF TupleLess(ip_sort(x), ip_sort(s[Len(s)]))
         THEN Append(InsertByKey(SubSeq(s, 1, Len(s) - 1), x), s[Len(s)])
         ELSE Append(s, x)

RECURSIVE SortFrom(_, _, _)
SortFrom(hosts, i, acc) ==
    IF i > Len(hosts) THEN acc
    ELSE SortFrom(hosts, i + 1, InsertByKey(acc, hosts[i]))

\* sorted(hosts, key=ip_sort): stable
sorted(hosts) == SortFrom(hosts, 1, <<>>)

update_clients_keeps_stale(old, resp) ==
    LET data == keen_get(resp)
    IN  IF DOMAIN data = {} THEN old
        ELSE LET hosts == Get(data, "host", <<>>)
             IN  IF Len(hosts) = 0 THEN old ELSE sorted(hosts)

update_clients_in_place(old, resp) ==
    LET data == keen_get(resp)
    IN  IF DOMAIN data = {} THEN <<>>
        ELSE LET hosts == Get(data, "host", <<>>)
             IN  IF Len(hosts) = 0 THEN <<>>
                 ELSE IF Len(old) > Len(hosts)
                 THEN sorted(hosts) \o SubSeq(old, Len(hosts) + 1, Len(old))
                 ELSE sorted(hosts)

\* the new value of ACTIVE_CLIENTS; old is its value before the call
update_clients(old, resp) ==
    LET data == keen_get(resp)
    IN  IF DOMAIN data = {} THEN <<>>
        ELSE LET hosts == Get(data, "host", <<>>)
             IN  IF Len(hosts) = 0 THEN <<>> ELSE sorted(hosts)

\* ------------------------------------------------------------ keen_auth
WIFI_LOGIN == "admin"
WIFI_PASSWORD == "secret"

\* hashlib digests as uninterpreted injective functions of their input
md5(s) == <<"md5", s>>
sha256(s) == <<"sha256", s>>

RealmHeader == "X-NDM-Realm"
ChallengeHeader == "X-NDM-Challenge"

HeaderMaps ==
    {EmptyMap}
    \cup {RealmHeader :> r : r \in {"", "keenetic"}}
    \cup {ChallengeHeader :> c : c \in {"", "NONCE"}}
    \cup {(RealmHeader :> r) @@ (ChallengeHeader :> c) :
            r \in {"", "keenetic"}, c \in {"", "NONCE"}}

\* replies to GET /auth and POST /auth; status 0: the call raised
ProbeStatuses == {0, 200, 401, 403, 500}
PostStatuses == {0, 200, 204, 401, 500}
ProbeReplies == {[status |-> s, headers |-> h] : s \in ProbeStatuses, h \in HeaderMaps}
PostReplies == {[status |-> s] : s \in PostStatuses}

AuthGet == [method |-> "GET", body |-> EmptyMap]
AuthPost(realm, challenge) ==
    [method |-> "POST",
     body |-> [login |-> WIFI_LOGIN,
               password |-> sha256(<<challenge,
                                     md5(<<WIFI_LOGIN, ":", realm, ":", WIFI_PASSWORD>>)>>)]]

keen_auth_any_2xx(probe, post) ==
    IF probe.status = 0
    THEN [ok |-> FALSE, reqs |-> <<AuthGet>>]
    ELSE IF probe.status = 200
    THEN [ok |-> TRUE, reqs |-> <<AuthGet>>]
    ELSE IF probe.status = 401
    THEN LET realm == Get(probe.headers, RealmHeader, "")
             challenge == Get(probe.headers, ChallengeHeader, "")
         IN  IF realm = "" \/ challenge = ""
             THEN [ok |-> FALSE, reqs |-> <<AuthGet>>]
             ELSE [ok |-> post.status >= 200 /\ post.status < 300,
                   reqs |-> <<AuthGet, AuthPost(realm, challenge)>>]
    ELSE [ok |-> FALSE, reqs |-> <<AuthGet>>]

keen_auth_always_posts(probe, post) ==
    IF probe.status = 0
    THEN [ok |-> FALSE, reqs |-> <<AuthGet>>]
    ELSE IF probe.status = 200 \/ probe.status = 401
    THEN LET realm == Get(probe.headers, RealmHeader, "")
             challenge == Get(probe.headers, ChallengeHeader, "")
         IN  IF probe.status = 401 /\ (realm = "" \/ challenge = "")
             THEN [ok |-> FALSE, reqs |-> <<AuthGet>>]
             ELSE [ok |-> probe.status = 200 \/ post.status = 200,
                   reqs |-> <<AuthGet, AuthPost(realm, challenge)>>]
    ELSE [ok |-> FALSE, reqs |-> <<AuthGet>>]

keen_auth_posts_without_headers(probe, post) ==
    IF probe.status = 0
    THEN [ok |-> FALSE, reqs |-> <<AuthGet>>]
    ELSE IF probe.status = 200
    THEN [ok |-> TRUE, reqs |-> <<AuthGet>>]
    ELSE IF probe.status = 401
    THEN LET realm == Get(probe.headers, RealmHeader, "")
             challenge == Get(probe.headers, ChallengeHeader, "")
         IN  [ok |-> post.status = 200,
              reqs |-> <<AuthGet, AuthPost(realm, challenge)>>]
    ELSE [ok |-> FALSE, reqs |-> <<AuthGet>>]

\* keen_auth(): the value returned and the requests issued, given the
\* router's reply to the probe and (if it is sent) to the POST
keen_auth(probe, post) ==
    IF probe.status = 0
    THEN [ok |-> FALSE, reqs |-> <<AuthGet>>]                 \* except Exception
    ELSE IF probe.status = 200
    THEN [ok |-> TRUE, reqs |-> <<AuthGet>>]
    ELSE IF probe.status = 401
    THEN LET realm == Get(probe.headers, RealmHeader, "")
             challenge == Get(probe.headers, ChallengeHeader, "")
         IN  IF realm = "" \/ challenge = ""
             THEN [ok |-> FALSE, reqs |-> <<AuthGet>>]
             ELSE [ok |-> post.status = 200,
                   reqs |-> <<AuthGet, AuthPost(realm, challenge)>>]
    ELSE [ok |-> FALSE, reqs |-> <<AuthGet>>]

\* ------------------------------------------------------------ check_status_change
NeedsEvent_whenever_known(prev, mac, current) == mac \in DOMAIN prev

\* `prev is not None and prev != current`
NeedsEvent(prev, mac, current) == mac \in DOMAIN prev /\ prev[mac] # current

\* the banner of the notification text
EventKind(current) == IF current THEN "connected" ELSE "disconnected"

Record_rebuilds(prev, mac, current) == (mac :> current)

\* PREV_STATUS[mac] = current
Record(prev, mac, current) == (mac :> current) @@ prev

RECURSIVE ForLoop_no_await(_, _, _, _)
ForLoop_no_await(list, i, prev, evs) ==
    IF i > Len(list)
    THEN [stop |-> "end", idx |-> i, prev |-> prev, events |-> evs]
    ELSE LET d == list[i]
         IN  IF "mac" \notin DOMAIN d
             THEN [stop |-> "raise", idx |-> i, prev |-> prev, events |-> evs]
             ELSE LET mac == d.mac
                      current == Get(d, "active", FALSE)
                      ev == [idx |-> i, mac |-> mac, kind |-> EventKind(current)]
                  IN  ForLoop_no_await(list, i + 1, Record(prev, mac, current),
                                       IF NeedsEvent(prev, mac, current)
                                       THEN Append(evs, ev) ELSE evs)

\* the for loop over the list, run from entry i until it suspends in
\* send_message ("send"), raises KeyError on d['mac'] ("raise") or ends
RECURSIVE ForLoop(_, _, _, _)
ForLoop(list, i, prev, evs) ==
    IF i > Len(list)
    THEN [stop |-> "end", idx |-> i, prev |-> prev, events |-> evs]
    ELSE LET d == list[i]
         IN  IF "mac" \notin DOMAIN d
             THEN [stop |-> "raise", idx |-> i, prev |-> prev, events |-> evs]
             ELSE LET mac == d.mac
                      current == Get(d, "active", FALSE)
                      ev == [idx |-> i, mac |-> mac, kind |-> EventKind(current)]
                  IN  IF NeedsEvent(prev, mac, current)
                      THEN IF Len(ALLOWED_USERS) = 0
                           THEN ForLoop(list, i + 1, Record(prev, mac, current),
                                        Append(evs, ev))
                           ELSE [stop |-> "send", idx |-> i, prev |-> prev,
                                 events |-> Append(evs, ev)]
                      ELSE ForLoop(list, i + 1, Record(prev, mac, current), evs)

AfterStop_escapes(stop) ==
    IF stop = "send" THEN "send"
    ELSE IF stop = "raise" THEN "crashed"
    ELSE "done"

\* where the loop body goes when the cycle's code stops
AfterStop(stop) ==
    IF stop = "send" THEN "send"      \* suspended in await send_message
    ELSE "done"                       \* loop ended, or `except Exception` caught

SendOutcome_raises(ok) == IF ok THEN "continue" ELSE "raise"

\* send_message raising is caught by the inner try: the user loop goes on
SendOutcome(ok) == "continue"

\* ------------------------------------------------------------ state
VARIABLES
    ACTIVE_CLIENTS,   \* the Presence Store
    PREV_STATUS,      \* mac -> last recorded active flag
    authed,           \* the router holds a valid session for our cookie
    pc,               \* the monitor: "poll", "send", "done", "sleep"
    iterList,         \* the list object the for loop iterates
    idx,              \* the loop's position in iterList
    uidx,             \* position in ALLOWED_USERS of the pending send_message
    events,           \* history: the events of this cycle, in order
    attempts,         \* history: the send_message calls of this cycle
    failedAt,         \* history: the first send_message of this cycle that raised
    cyc,              \* history: this cycle's reply (its hosts as a set) and
                      \* PREV_STATUS at its start
    fails,            \* history: failed/empty polls since the last non-empty one
    snap,             \* history: PREV_STATUS after the last non-empty poll
    net,              \* history: router traffic of the last step
    polled,           \* history: the hosts of the latest device-list reply
    authIn,           \* keen_auth in isolation: the router's replies
    authOut,          \* keen_auth in isolation: its result
    hs,               \* the event loop: each start() call's place in keen_auth
    loop,             \* the event loop: the task that runs (Free: all suspended)
    wire,             \* history: the last requests sent on the shared session
    arg,              \* one function in isolation: its name and its input
    ret               \* one function in isolation: what the call gave

vars == <<ACTIVE_CLIENTS, PREV_STATUS, authed, pc, iterList, idx, uidx,
          events, attempts, failedAt, cyc, fails, snap, net, polled, authIn, authOut,
          hs, loop, wire, arg, ret>>

monitorVars == <<pc, iterList, idx, uidx, events, attempts, failedAt, cyc, fails, snap>>
loopVars == <<hs, loop, wire>>
pureVars == <<arg, ret>>
\* what the monitor and the handlers never touch
authVars == <<authIn, authOut, loopVars, pureVars>>
\* what the specifications of single functions never touch
mainVars == <<ACTIVE_CLIENTS, PREV_STATUS, authed, monitorVars, net, polled>>

NoCycle == [reply |-> "none", hosts |-> {}, prev0 |-> EmptyMap, raised |-> FALSE,
            fails |-> 0]
NoFailure == [ev |-> 0, user |-> 0]
\* the router traffic of one step: whether a request was sent, whether a
\* keen_get was answered 401 and the handshake then run again, and the chat
\* user whose handler took the step (0: not a handler)
Traffic(user, sent, get401) ==
    [get401 |-> get401, reauth |-> FALSE, sent |-> sent, user |-> user]
NoNet == Traffic(0, FALSE, FALSE)
NoAuthIn == [probe |-> [status |-> 0, headers |-> EmptyMap], post |-> [status |-> 0]]
NoAuthOut == [called |-> FALSE, ok |-> FALSE, reqs |-> <<>>]

NoArg == [fn |-> "none", in |-> <<>>]
NoRet == [called |-> FALSE, out |-> <<>>]
\* no function is run in isolation
PureIdle ==
    /\ arg = NoArg
    /\ ret = NoRet

\* the handler invocations that may be pending at once, and the tasks of
\* the event loop
Handlers == {"h1", "h2"}
Free == "free"
NoProbe == [status |-> 0, headers |-> EmptyMap]
\* no start() call is inside keen_auth, every task is suspended
LoopIdle ==
    /\ hs = [h \in Handlers |-> [at |-> "idle", probe |-> NoProbe]]
    /\ loop = Free
    /\ wire = <<>>

\* the state when the monitor task first runs: __main__ has called
\* keen_auth() once, with either outcome
MainInit ==
    /\ ACTIVE_CLIENTS = <<>>
    /\ PREV_STATUS = EmptyMap
    /\ authed \in BOOLEAN
    /\ pc = "poll"
    /\ iterList = <<>>
    /\ idx = 0
    /\ uidx = 0
    /\ events = <<>>
    /\ attempts = <<>>
    /\ failedAt = NoFailure
    /\ cyc = NoCycle
    /\ fails = 0
    /\ snap = EmptyMap
    /\ net = NoNet
    /\ polled = EmptyMap

Init ==
    /\ MainInit
    /\ authIn = NoAuthIn
    /\ authOut = NoAuthOut
    /\ LoopIdle
    /\ PureIdle

\* ------------------------------------------------------------ the monitor
\* update_clients() and the for loop up to its first suspension
MonitorPoll ==
    /\ pc = "poll"
    /\ \E resp \in DeviceListReplies(authed) :
        LET clients == update_clients(ACTIVE_CLIENTS, resp)
            r == ForLoop(clients, 1, PREV_STATUS, <<>>)
        IN  /\ ACTIVE_CLIENTS' = clients
            /\ iterList' = clients
            /\ PREV_STATUS' = r.prev
            /\ idx' = r.idx
            /\ uidx' = IF r.stop = "send" THEN 1 ELSE 0
            /\ events' = r.events
            /\ attempts' = <<>>
            /\ failedAt' = NoFailure
            /\ pc' = AfterStop(r.stop)
            /\ cyc' = [reply |-> ReplyClass(resp),
                       hosts |-> {ReplyHosts(resp)[i] : i \in 1..Len(ReplyHosts(resp))},
                       prev0 |-> PREV_STATUS,
                       raised |-> r.stop = "raise",
                       fails |-> fails]
            /\ net' = Traffic(0, TRUE, resp.status = 401)
            /\ polled' = BagOf(ReplyHosts(resp))
    /\ UNCHANGED <<authed, fails, snap, authVars>>

\* one `await app.bot.send_message` returns or raises; after the last
\* subscriber the entry is recorded and the for loop runs on
MonitorSend ==
    /\ pc = "send"
    /\ \E ok \in BOOLEAN :
        /\ attempts' = Append(attempts, [ev |-> Len(events), user |-> ALLOWED_USERS[uidx]])
        /\ failedAt' = IF ~ok /\ failedAt = NoFailure
                       THEN [ev |-> Len(events), user |-> ALLOWED_USERS[uidx]]
                       ELSE failedAt
        /\ IF SendOutcome(ok) = "raise"
           THEN /\ pc' = AfterStop("raise")
                /\ cyc' = [cyc EXCEPT !.raised = TRUE]
                /\ uidx' = 0
                /\ UNCHANGED <<PREV_STATUS, idx, events>>
           ELSE IF uidx < Len(ALLOWED_USERS)
           THEN /\ uidx' = uidx + 1
                /\ UNCHANGED <<PREV_STATUS, pc, idx, events, cyc>>
           ELSE LET d == iterList[idx]
                    r == ForLoop(iterList, idx + 1,
                                 Record(PREV_STATUS, d.mac, Get(d, "active", FALSE)),
                                 events)
                IN  /\ PREV_STATUS' = r.prev
                    /\ idx' = r.idx
                    /\ uidx' = IF r.stop = "send" THEN 1 ELSE 0
                    /\ events' = r.events
                    /\ pc' = AfterStop(r.stop)
                    /\ cyc' = [cyc EXCEPT !.raised = (r.stop = "raise")]
    /\ net' = NoNet
    /\ UNCHANGED <<ACTIVE_CLIENTS, authed, iterList, fails, snap, polled, authVars>>

\* the cycle's code is over: the loop enters `await asyncio.sleep(10)`
MonitorSleep ==
    /\ pc = "done"
    /\ pc' = "sleep"
    /\ fails' = IF cyc.reply = "hosts" THEN 0
                ELSE IF fails < MaxFails THEN fails + 1 ELSE fails
    /\ snap' = IF cyc.reply = "hosts" THEN PREV_STATUS ELSE snap
    /\ iterList' = <<>>
    /\ idx' = 0
    /\ uidx' = 0
    /\ events' = <<>>
    /\ attempts' = <<>>
    /\ failedAt' = NoFailure
    /\ cyc' = NoCycle
    /\ net' = NoNet
    /\ UNCHANGED <<ACTIVE_CLIENTS, PREV_STATUS, authed, polled, authVars>>

\* the sleep is over: `while True` starts the next cycle
MonitorWake ==
    /\ pc = "sleep"
    /\ pc' = "poll"
    /\ net' = NoNet
    /\ UNCHANGED <<ACTIVE_CLIENTS, PREV_STATUS, authed, iterList, idx, uidx,
                   events, attempts, failedAt, cyc, fails, snap, polled, authVars>>

\* ------------------------------------------------------------ the router
\* the router drops the session (expiry, reboot)
SessionExpire ==
    /\ authed
    /\ authed' = FALSE
    /\ net' = NoNet
    /\ UNCHANGED <<ACTIVE_CLIENTS, PREV_STATUS, monitorVars, polled, authVars>>

\* the probes the router can answer with: 200 only for a valid session
MainProbeReplies(a) ==
    {p \in ProbeReplies : (p.status = 200) => a}

\* the results keen_auth() can return in this router state
AuthResults(a) ==
    {keen_auth(p, q).ok : p \in MainProbeReplies(a), q \in PostReplies}

\* ------------------------------------------------------------ the handlers
is_user_allowed_anyone(user_id) == TRUE

\* user_id in ALLOWED_USERS
is_user_allowed(user_id) == \E i \in 1..Len(ALLOWED_USERS) : ALLOWED_USERS[i] = user_id

\* handlers run while the monitor is suspended in an await
MonitorSuspended == pc \in {"send", "sleep"}

\* the host lists the router returns to a handler's on-demand poll
UIHostLists ==
    {<<>>,
     <<[mac |-> "A", ip |-> IpOf["A"], active |-> TRUE],
       [mac |-> "B", ip |-> IpOf["B"], active |-> FALSE]>>}

UIDeviceListReplies(a) ==
    FailedReplies(a)
    \cup (IF a
          THEN {[status |-> 200, json |-> TRUE, data |-> [host |-> h]] : h \in UIHostLists}
          ELSE {})

\* start() past the allow-list check: keen_auth(), then update_clients()
\* (the later requests of start() read the router and leave the state alone)
\* clients, seen: the store and the latest reply as the caller left them
StartBody(clients, seen) ==
    \E ok \in AuthResults(authed) :
        IF ~ok
        THEN /\ ACTIVE_CLIENTS' = clients
             /\ polled' = seen
             /\ UNCHANGED authed
        ELSE /\ authed' = TRUE
             /\ \E resp \in UIDeviceListReplies(TRUE) :
                    /\ ACTIVE_CLIENTS' = update_clients(clients, resp)
                    /\ polled' = BagOf(ReplyHosts(resp))

\* /start
UIStart(user) ==
    /\ MonitorSuspended
    /\ IF ~is_user_allowed(user)
       THEN /\ UNCHANGED <<ACTIVE_CLIENTS, authed, polled>>
            /\ net' = Traffic(user, FALSE, FALSE)
       ELSE /\ StartBody(ACTIVE_CLIENTS, polled)
            /\ net' = Traffic(user, TRUE, FALSE)
    /\ UNCHANGED <<PREV_STATUS, monitorVars, authVars>>

CallbackData == {"refresh_main", "show_online", "client_A_online", "back_to_main"}

\* a button press
UIButton(user, data) ==
    /\ MonitorSuspended
    /\ IF ~is_user_allowed(user)
       THEN /\ UNCHANGED <<ACTIVE_CLIENTS, authed, polled>>
            /\ net' = Traffic(user, FALSE, FALSE)
       ELSE IF data = "refresh_main"
       THEN /\ StartBody(ACTIVE_CLIENTS, polled)
            /\ net' = Traffic(user, TRUE, FALSE)
       ELSE \E resp \in UIDeviceListReplies(authed) :
             /\ net' = Traffic(user, TRUE, resp.status = 401)
             /\ IF data = "back_to_main"
                THEN StartBody(update_clients(ACTIVE_CLIENTS, resp),
                               BagOf(ReplyHosts(resp)))
                ELSE /\ ACTIVE_CLIENTS' = update_clients(ACTIVE_CLIENTS, resp)
                     /\ polled' = BagOf(ReplyHosts(resp))
                     /\ UNCHANGED authed
    /\ UNCHANGED <<PREV_STATUS, monitorVars, authVars>>

Next ==
    \/ MonitorPoll
    \/ MonitorSend
    \/ MonitorSleep
    \/ MonitorWake
    \/ SessionExpire
    \/ \E user \in ChatUsers : UIStart(user)
    \/ \E user \in ChatUsers, data \in CallbackData : UIButton(user, data)

Spec == Init /\ [][Next]_vars

\* asyncio resumes a task whose await has completed: a pending
\* send_message returns or raises, the sleep ends, the loop body runs
FairSpec ==
    /\ Spec
    /\ WF_vars(MonitorPoll)
    /\ WF_vars(MonitorSend)
    /\ WF_vars(MonitorSleep)
    /\ WF_vars(MonitorWake)

\* ------------------------------------------------------------ keen_auth alone
\* one call of keen_auth() against every pair of router replies
AuthInit ==
    /\ MainInit
    /\ ~authed
    /\ authIn \in [probe : ProbeReplies, post : PostReplies]
    /\ authOut = NoAuthOut
    /\ LoopIdle
    /\ PureIdle

AuthCall ==
    /\ ~authOut.called
    /\ LET r == keen_auth(authIn.probe, authIn.post)
       IN  authOut' = [called |-> TRUE, ok |-> r.ok, reqs |-> r.reqs]
    /\ UNCHANGED <<mainVars, authIn, loopVars, pureVars>>

\* the caller decides to call again; the router answers anew
AuthAgain ==
    /\ authOut.called
    /\ authIn' \in [probe : ProbeReplies, post : PostReplies]
    /\ authOut' = NoAuthOut
    /\ UNCHANGED <<mainVars, loopVars, pureVars>>

AuthNext == AuthCall \/ AuthAgain

AuthSpec == AuthInit /\ [][AuthNext]_vars

\* ------------------------------------------------------------ the event loop
\* keen_auth request by request, for start() calls that are pending at
\* once and the monitor, all on the one requests.Session.  A task takes the
\* loop when every task is suspended and keeps it until its next await.
Sent(by, req) == [by |-> by, req |-> req]

\* the window of the last MaxWire requests
Log(w, entries) ==
    LET all == w \o entries
    IN  IF Len(all) <= MaxWire THEN all
        ELSE SubSeq(all, Len(all) - MaxWire + 1, Len(all))

AfterProbe_awaits(h) == Free

\* who holds the loop once GET /auth has returned: requests' session.get
\* blocks, there is no await between the probe and the POST
AfterProbe(h) == h

\* start() is entered, passes the allow-list check and calls keen_auth():
\* the probe is sent and answered.  Without a POST to follow, keen_auth
\* returns; on True start() polls the router; then it awaits its reply
StartProbe(h) ==
    /\ loop = Free
    /\ hs[h].at = "idle"
    /\ \E p \in MainProbeReplies(authed) :
        LET r == keen_auth(p, [status |-> 0])
        IN  IF Len(r.reqs) = 2
            THEN /\ hs' = [hs EXCEPT ![h] = [at |-> "probed", probe |-> p]]
                 /\ loop' = AfterProbe(h)
                 /\ wire' = Log(wire, <<Sent(h, "GET /auth")>>)
            ELSE /\ hs' = hs
                 /\ loop' = Free
                 /\ wire' = Log(wire, IF r.ok
                                      THEN <<Sent(h, "GET /auth"), Sent(h, "GET /rci")>>
                                      ELSE <<Sent(h, "GET /auth")>>)
    /\ UNCHANGED <<mainVars, authIn, authOut, pureVars>>

\* the POST of a probed call is sent and answered; keen_auth returns, and
\* start() goes on as above
StartPost(h) ==
    /\ loop \in {h, Free}
    /\ hs[h].at = "probed"
    /\ \E q \in PostReplies :
        LET r == keen_auth(hs[h].probe, q)
        IN  /\ authed' = (authed \/ q.status = 200)
            /\ wire' = Log(wire, IF r.ok
                                 THEN <<Sent(h, "POST /auth"), Sent(h, "GET /rci")>>
                                 ELSE <<Sent(h, "POST /auth")>>)
    /\ hs' = [hs EXCEPT ![h] = [at |-> "idle", probe |-> NoProbe]]
    /\ loop' = Free
    /\ UNCHANGED <<ACTIVE_CLIENTS, PREV_STATUS, monitorVars, net, polled, authIn, authOut,
                   pureVars>>

\* the monitor wakes, polls the router and is suspended again
LoopMonitorPoll ==
    /\ loop = Free
    /\ wire' = Log(wire, <<Sent("monitor", "GET /rci")>>)
    /\ UNCHANGED <<mainVars, authIn, authOut, hs, loop, pureVars>>

LoopNext ==
    \/ \E h \in Handlers : StartProbe(h)
    \/ \E h \in Handlers : StartPost(h)
    \/ LoopMonitorPoll
    \/ SessionExpire

LoopSpec == Init /\ [][LoopNext]_vars

\* ------------------------------------------------------------ single functions
\* the ip values of a host entry: well-formed addresses, "10.x.0.5",
\* "10.0.0", "abc" (or ""), and "0.0.0.0"
SortIps ==
    <<<<10, 0, 0, 5>>, <<10, 0, 0, 20>>, <<9, 0, 0, 7>>, <<0, 0, 0, 0>>,
      <<10, NonDigit, 0, 5>>, <<10, 0, 0>>, <<NonDigit>>>>

SortNames == <<"A", "B", "C">>

\* the host lists given to sorted(): entry i is named SortNames[i] and has
\* one of the ip values (by its place in SortIps) or, for 0, no ip
SortInputs ==
    UNION {[1..n -> 0..Len(SortIps)] : n \in 0..MaxSort}

SortHosts(ips) ==
    [i \in 1..Len(ips) |->
        IF ips[i] = 0 THEN [mac |-> SortNames[i]]
        ELSE [mac |-> SortNames[i], ip |-> SortIps[ips[i]]]]

\* the replies given to keen_get(): no response (0), success, redirection
\* and error statuses, with a body that is JSON or not
GetStatuses == {0, 200, 204, 300, 401, 404, 500}

GetReplies ==
    {[status |-> st, json |-> FALSE, data |-> EmptyMap] : st \in GetStatuses}
    \cup {[status |-> st, json |-> TRUE, data |-> d] :
            st \in GetStatuses \ {0},
            d \in {EmptyMap, [error |-> "x"], [host |-> <<>>]}}

\* the 'memory' string of the system reply as its '/'-separated parts, a
\* part being a number or NonDigit (what int() rejects): "3/8", "0/0",
\* "abc", "5", "1/2/3", "3/x"
MemoryStrings ==
    {<<3, 8>>, <<0, 0>>, <<NonDigit>>, <<5>>, <<1, 2, 3>>, <<3, NonDigit>>}

\* the system replies: each of memory, memtotal and memfree present or not
SysInfos ==
    {m @@ t @@ f :
        m \in {EmptyMap} \cup {"memory" :> v : v \in MemoryStrings},
        t \in {EmptyMap, "memtotal" :> 8},
        f \in {EmptyMap, "memfree" :> 5}}

\* int(x) returns
IsInt(x) == x # NonDigit

\* start(): the memory figures (in KB) it goes on to display
MemoryOf(sys_info) ==
    LET memory_str == Get(sys_info, "memory", <<0, 0>>)
    IN  IF Len(memory_str) = 2 /\ IsInt(memory_str[1]) /\ IsInt(memory_str[2])
        THEN [used_kb |-> memory_str[1], total_kb |-> memory_str[2]]
        ELSE \* except (ValueError, AttributeError)
             LET mem_total == Get(sys_info, "memtotal", 0)
                 mem_free == Get(sys_info, "memfree", 0)
                 mem_used == mem_total - mem_free
             IN  [used_kb |-> mem_used, total_kb |-> mem_total]

PureArgs ==
    {[fn |-> "sorted", in |-> SortHosts(ips)] : ips \in SortInputs}
    \cup {[fn |-> "keen_get", in |-> resp] : resp \in GetReplies}
    \cup {[fn |-> "memory", in |-> si] : si \in SysInfos}

PureInit ==
    /\ MainInit
    /\ authIn = NoAuthIn
    /\ authOut = NoAuthOut
    /\ LoopIdle
    /\ arg \in PureArgs
    /\ ret = NoRet

\* ACTIVE_CLIENTS = sorted(hosts, key=ip_sort)
SortCall ==
    /\ ~ret.called
    /\ arg.fn = "sorted"
    /\ ret' = [called |-> TRUE, out |-> sorted(arg.in)]
    /\ UNCHANGED <<mainVars, authIn, authOut, loopVars, arg>>

\* keen_get(path), the router answering arg.in
GetCall ==
    /\ ~ret.called
    /\ arg.fn = "keen_get"
    /\ ret' = [called |-> TRUE, out |-> keen_get(arg.in)]
    /\ UNCHANGED <<mainVars, authIn, authOut, loopVars, arg>>

\* start() reads the memory figures from the system reply arg.in
MemoryCall ==
    /\ ~ret.called
    /\ arg.fn = "memory"
    /\ ret' = [called |-> TRUE, out |-> MemoryOf(arg.in)]
    /\ UNCHANGED <<mainVars, authIn, authOut, loopVars, arg>>

\* the function is called again, on another input
PureAgain ==
    /\ ret.called
    /\ arg' \in PureArgs
    /\ ret' = NoRet
    /\ UNCHANGED <<mainVars, authIn, authOut, loopVars>>

PureNext ==
    \/ SortCall
    \/ GetCall
    \/ MemoryCall
    \/ PureAgain

PureSpec == PureInit /\ [][PureNext]_vars

\* ------------------------------------------------------------ properties
\* the words of the claims, stated on the history of a finished cycle
HasMac(d) == "mac" \in DOMAIN d
ActiveFlag(d) == "active" \in DOMAIN d /\ d.active
CycleOver == pc = "done"
PollHosts == cyc.hosts
StoredHosts == {ACTIVE_CLIENTS[i] : i \in 1..Len(ACTIVE_CLIENTS)}
EventsOf(m) == {k \in 1..Len(events) : events[k].mac = m}
Changed(d) == d.mac \in DOMAIN cyc.prev0 /\ cyc.prev0[d.mac] # ActiveFlag(d)
UserSet == {ALLOWED_USERS[i] : i \in 1..Len(ALLOWED_USERS)}
AttemptsOf(k) == SelectSeq(attempts, LAMBDA a : a.ev = k)

\* C1: in a cycle whose poll is non-empty, each device entry gets a
\* transition event iff PREV_STATUS held a different value for its address
\* before it was processed; then exactly one, 'disconnected' for an
\* inactive device and 'connected' for an active one.
C1_EventIffChanged ==
    (CycleOver /\ cyc.reply = "hosts") =>
        \A d \in PollHosts :
            HasMac(d) =>
                IF Changed(d)
                THEN /\ Cardinality(EventsOf(d.mac)) = 1
                     /\ \A k \in EventsOf(d.mac) :
                            events[k].kind =
                                (IF ActiveFlag(d) THEN "connected" ELSE "disconnected")
                ELSE EventsOf(d.mac) = {}

\* C2: a device address seen for the first time (no entry in PREV_STATUS)
\* emits no event, and after the cycle PREV_STATUS holds its active value.
C2_FirstObservationRecorded ==
    (CycleOver /\ cyc.reply = "hosts") =>
        \A d \in PollHosts :
            (HasMac(d) /\ d.mac \notin DOMAIN cyc.prev0) =>
                /\ EventsOf(d.mac) = {}
                /\ d.mac \in DOMAIN PREV_STATUS
                /\ PREV_STATUS[d.mac] = ActiveFlag(d)

C5_ReauthOn401 == net.get401 => net.reauth

\* C6: a device record with missing fields never fails the cycle: every
\* device of the poll is stored, diffed and recorded.
C6_MissingFieldsTolerated ==
    (CycleOver /\ cyc.reply = "hosts") =>
        /\ ~cyc.raised
        /\ PollHosts = {iterList[i] : i \in 1..Len(iterList)}
        /\ \A d \in PollHosts :
               HasMac(d) =>
                   /\ d.mac \in DOMAIN PREV_STATUS
                   /\ PREV_STATUS[d.mac] = ActiveFlag(d)
                   /\ (Changed(d) <=> EventsOf(d.mac) # {})

\* C7: an exception inside a cycle is caught at the loop boundary, the
\* sleep is taken, and a further cycle always eventually starts.
C7_MonitorNeverStops ==
    /\ [][(cyc.raised /\ pc' # pc) => pc' = "sleep"]_vars
    /\ []<>(pc = "poll")

C7_Witness == CycleOver /\ cyc.raised /\ Len(events) >= 1

\* C8: each event is attempted to every subscriber in list order whether
\* or not a delivery raises; the device is then recorded in PREV_STATUS and
\* the loop goes on to the next device.
C8_DeliveryFailureIsolated ==
    \A k \in 1..Len(events) :
        IF pc = "send" /\ k = Len(events)
        THEN AttemptsOf(k) = [i \in 1..(uidx - 1) |-> [ev |-> k, user |-> ALLOWED_USERS[i]]]
        ELSE /\ AttemptsOf(k) = [i \in 1..Len(ALLOWED_USERS) |-> [ev |-> k, user |-> ALLOWED_USERS[i]]]
             /\ events[k].mac \in DOMAIN PREV_STATUS
             /\ PREV_STATUS[events[k].mac] = (events[k].kind = "connected")
             /\ idx > events[k].idx

C8_Witness ==
    /\ CycleOver
    /\ failedAt = [ev |-> 1, user |-> ALLOWED_USERS[1]]
    /\ Len(events) = 2
    /\ Len(attempts) = 2 * Len(ALLOWED_USERS)

\* the probe was answered 401 with a non-empty realm and challenge
ChallengeOffered(probe) ==
    /\ probe.status = 401
    /\ RealmHeader \in DOMAIN probe.headers
    /\ probe.headers[RealmHeader] # ""
    /\ ChallengeHeader \in DOMAIN probe.headers
    /\ probe.headers[ChallengeHeader] # ""

Issued(method) == Len(SelectSeq(authOut.reqs, LAMBDA r : r.method = method))

\* C9: keen_auth succeeds exactly when the probe returns 200, or the probe
\* returns 401 with a realm and a challenge and the POST returns 200; it
\* issues at most one probe and at most one POST.
C9_AuthResult ==
    authOut.called =>
        /\ authOut.ok <=>
              \/ authIn.probe.status = 200
              \/ ChallengeOffered(authIn.probe) /\ authIn.post.status = 200
        /\ Issued("GET") <= 1
        /\ Issued("POST") <= 1

C9_Witness ==
    /\ authOut.called
    /\ ChallengeOffered(authIn.probe)
    /\ authIn.post.status = 200
    /\ authOut.ok
    /\ Issued("POST") = 1

\* C10: a probe answered 200 never leads to the POST, and the call
\* reports success.
C10_ProbeOkShortCircuits ==
    (authOut.called /\ authIn.probe.status = 200) =>
        /\ authOut.ok
        /\ Issued("POST") = 0

C10_Witness ==
    /\ authOut.called
    /\ authIn.probe.status = 200
    /\ authIn.post.status # 200
    /\ authOut.ok

\* C11: when the probe returns 401 and the realm header or the challenge
\* header is absent or empty, keen_auth returns failure and issues no POST.
C11_NoHeadersNoPost ==
    (authOut.called /\ authIn.probe.status = 401 /\ ~ChallengeOffered(authIn.probe)) =>
        /\ ~authOut.ok
        /\ Issued("POST") = 0
        /\ authOut.reqs = <<AuthGet>>

C11_Witness ==
    /\ authOut.called
    /\ authIn.probe.status = 401
    /\ authIn.probe.headers = (RealmHeader :> "keenetic")
    /\ authIn.post.status = 200
    /\ ~authOut.ok
    /\ Issued("POST") = 0

\* C12: ACTIVE_CLIENTS and PREV_STATUS are changed only by steps of the
\* monitor loop; a step of start or button_handler leaves both as they were.
C12_SingleWriter ==
    [][(ACTIVE_CLIENTS' # ACTIVE_CLIENTS \/ PREV_STATUS' # PREV_STATUS) =>
            (MonitorPoll \/ MonitorSend)]_vars

InFlight == {h \in Handlers : hs[h].at = "probed"}

\* C13: at most one handshake is in flight: while a caller is between its
\* probe and its POST no other caller starts a handshake, and on the session
\* every POST /auth directly follows the same caller's GET /auth.
C13_OneHandshakeInFlight ==
    /\ Cardinality(InFlight) <= 1
    /\ \A h \in InFlight : wire[Len(wire)] = Sent(h, "GET /auth")
    /\ \A i \in 2..Len(wire) :
           wire[i].req = "POST /auth" => wire[i - 1] = Sent(wire[i].by, "GET /auth")

C13_Witness ==
    /\ hs["h2"].at = "probed"
    /\ wire = <<Sent("h1", "GET /auth"), Sent("h1", "POST /auth"),
                Sent("monitor", "GET /rci"), Sent("h2", "GET /auth")>>

\* a list in the order of sorted(): no entry's key is below its predecessor's
InKeyOrder(s) ==
    \A i \in 1..(Len(s) - 1) : ~TupleLess(ip_sort(s[i + 1]), ip_sort(s[i]))

\* C14: in every state ACTIVE_CLIENTS is empty or holds exactly the hosts
\* of one device-list reply (the latest), every one of them, in sorted
\* order; so does the list the monitor iterates while it is suspended in a
\* delivery.
C14_StoreIsOnePoll ==
    /\ \/ ACTIVE_CLIENTS = <<>>
       \/ /\ BagOf(ACTIVE_CLIENTS) = polled
          /\ InKeyOrder(ACTIVE_CLIENTS)
    /\ pc = "send" =>
          /\ {iterList[i] : i \in 1..Len(iterList)} = cyc.hosts
          /\ InKeyOrder(iterList)

C14_Witness ==
    /\ pc = "send"
    /\ Len(iterList) = 2
    /\ Len(ACTIVE_CLIENTS) = 2
    /\ ACTIVE_CLIENTS # iterList
    /\ BagOf(iterList) # polled

\* an address of four octets
WellFormedIp(d) ==
    /\ "ip" \in DOMAIN d
    /\ Len(d.ip) = 4
    /\ \A k \in 1..4 : d.ip[k] \in 0..255

\* numeric order, octet by octet
OctetLess(a, b) ==
    \E k \in 1..4 : a[k] < b[k] /\ \A j \in 1..(k - 1) : a[j] = b[j]

\* C15: the sorted list is ordered by IP address, numerically octet by
\* octet, and every device whose IP is missing or malformed precedes every
\* device with a well-formed IP.
C15_SortedByIpMissingFirst ==
    (ret.called /\ arg.fn = "sorted") =>
        \A i, j \in 1..Len(ret.out) :
            i < j =>
                /\ (WellFormedIp(ret.out[i]) /\ WellFormedIp(ret.out[j])) =>
                       ~OctetLess(ret.out[j].ip, ret.out[i].ip)
                /\ ~(WellFormedIp(ret.out[i]) /\ ~WellFormedIp(ret.out[j]))

\* C16: keen_get returns the empty mapping for every reply with a status
\* outside 2xx, for every network error and for every body that is not JSON.
C16_GetSoftFails ==
    (ret.called /\ arg.fn = "keen_get") =>
        ((arg.in.status \notin 200..299 \/ ~arg.in.json) => ret.out = EmptyMap)

\* C17: the events of a cycle are in the order of their devices in the
\* cycle's list, and every delivery of an event is attempted before the
\* next event is produced.
C17_EventsInListOrder ==
    /\ \A k \in 1..Len(events) :
           /\ events[k].idx \in 1..Len(iterList)
           /\ HasMac(iterList[events[k].idx])
           /\ iterList[events[k].idx].mac = events[k].mac
    /\ \A k, l \in 1..Len(events) : k < l => events[k].idx < events[l].idx
    /\ \A i, j \in 1..Len(attempts) : i < j => attempts[i].ev <= attempts[j].ev
    /\ \A k \in 1..(Len(events) - 1) : Len(AttemptsOf(k)) = Len(ALLOWED_USERS)

C17_Witness ==
    /\ pc = "send"
    /\ Len(events) = 2
    /\ events[1].idx = 1
    /\ events[2].idx = 2
    /\ uidx = 2
    /\ Len(attempts) = Len(ALLOWED_USERS) + 1

\* the combined string is present and is two integers
CombinedParses(si) ==
    /\ "memory" \in DOMAIN si
    /\ Len(si.memory) = 2
    /\ \A k \in 1..2 : si.memory[k] \in Nat

\* C18: the memory figures come from the combined "used/total" string
\* when it is present and parses as two integers, and from the separate
\* fields (used = memtotal - memfree, total = memtotal) when it is absent or
\* malformed, and only then.
C18_MemorySource ==
    (ret.called /\ arg.fn = "memory") =>
        IF CombinedParses(arg.in)
        THEN ret.out = [used_kb |-> arg.in.memory[1], total_kb |-> arg.in.memory[2]]
        ELSE ret.out = [used_kb |-> Get(arg.in, "memtotal", 0) - Get(arg.in, "memfree", 0),
                        total_kb |-> Get(arg.in, "memtotal", 0)]

\* the addresses of the cycle's poll
PollMacs == {d.mac : d \in {x \in PollHosts : HasMac(x)}}

\* C19: PREV_STATUS never loses an entry; a cycle changes only entries of
\* devices of its own poll, so a device absent from the poll keeps its value
\* and gets no event, and an event is only ever produced against the value
\* held at the start of the cycle.
C19_PrevStatusOnlyGrows ==
    /\ [][\A m \in DOMAIN PREV_STATUS :
             /\ m \in DOMAIN PREV_STATUS'
             /\ PREV_STATUS'[m] # PREV_STATUS[m] =>
                    \E i \in 1..Len(iterList') :
                        HasMac(iterList'[i]) /\ iterList'[i].mac = m]_vars
    /\ [](cyc.reply # "none" =>
            /\ \A m \in DOMAIN cyc.prev0 \ PollMacs :
                   /\ m \in DOMAIN PREV_STATUS
                   /\ PREV_STATUS[m] = cyc.prev0[m]
                   /\ EventsOf(m) = {}
            /\ \A k \in 1..Len(events) :
                   /\ events[k].mac \in DOMAIN cyc.prev0 \cap PollMacs
                   /\ events[k].kind # EventKind(cyc.prev0[events[k].mac]))

C19_Witness ==
    /\ CycleOver
    /\ cyc.reply = "hosts"
    /\ cyc.fails = 0
    /\ "A" \in DOMAIN cyc.prev0
    /\ cyc.prev0["A"]
    /\ "A" \notin PollMacs
    /\ PREV_STATUS["A"]
    /\ "B" \in PollMacs
    /\ Len(events) = 1

\* C20: a handler step taken for a chat user outside ALLOWED_USERS sends
\* no router request (handshake or fetch) and leaves ACTIVE_CLIENTS,
\* PREV_STATUS and the router session as they were.
C20_NotAllowedNoEffect ==
    /\ [](net.user \in ChatUsers \ UserSet => ~net.sent /\ ~net.get401)
    /\ [][net'.user \in ChatUsers \ UserSet =>
             UNCHANGED <<ACTIVE_CLIENTS, PREV_STATUS, authed, polled>>]_vars

C20_Witness ==
    /\ net.user \in ChatUsers \ UserSet
    /\ pc = "send"
    /\ authed
    /\ Len(ACTIVE_CLIENTS) = 2
    /\ DOMAIN PREV_STATUS = Macs

====
